---- MODULE Spec2Model ----
(***************************************************************************)
(* State-machine model of the three programs of the repository:           *)
(*   - polymorphic_demo_linux.c    (ELF self-mutating executable)          *)
(*   - polymorphic_demo_windows.c  (PE self-mutating executable)           *)
(*   - llm_backup_classifier.c     (sensitive-file backup classifier)      *)
(* The variable prog selects which program a behaviour is about; the      *)
(* programs do not interact, so every behaviour runs exactly one of them. *)
(***************************************************************************)
EXTENDS Integers, Sequences, FiniteSets, TLC

VARIABLES
    prog,           \* which program this behaviour runs: "xor", "elf", "pe", "cls"
    \* ---- byte transform applied in isolation (xor_crypt and its siblings)
    x_fn,           \* the transform under test
    x_orig,         \* the bytes before the first application
    x_data,         \* the buffer the transform is applied to, in place
    x_addkey,       \* additional_key argument of the PE xor_crypt_additional
    x_n,            \* number of applications so far
    \* ---- ELF mutator
    elf_shdrs,      \* section header table of the executable
    elf_disk,       \* the file at argv[0]: [present, bytes]
    elf_pc,         \* position of the running process
    elf_key,        \* static unsigned char key[KEY_SIZE + 1]
    elf_file_key,   \* static unsigned char file_key[KEY_SIZE + 1]
    elf_rt_poly,    \* the loaded (runtime) copy of the .poly code
    elf_data_prot,  \* page protection of the loaded .data: "rw" or "r"
    elf_exe_data,   \* main's heap copy of the executable (exe_data / data)
    elf_exit,       \* how the last process ended: "none", "running", "ok", "fail", "crash"
    elf_err,        \* the message die() wrote to stderr, "" if none
    elf_runs,       \* number of processes started so far
    elf_plain,      \* the .poly machine code as compiled (plaintext)
    elf_prev,       \* the file as it was when the current process started
    elf_executed,   \* what Demonstrate() executed in the current process
    \* ---- PE mutator
    pe_hdr,         \* header signatures of the executable: [e_magic, Signature]
    pe_sections,    \* section table of the executable
    pe_file,        \* the bytes of the executable file (the mapped view shows them)
    pe_pc,          \* position of the running process
    pe_key,         \* static unsigned char key[KEY_SIZE + 1]
    pe_file_key,    \* mutate_executable's local file_key[KEY_SIZE]
    pe_mapped,      \* the view of the file is mapped
    pe_exit,        \* how the last process ended: "none", "running", "ok", "fail", "crash"
    pe_err,         \* the message die() wrote to stderr, "" if none
    pe_warn,        \* the warning mutate_executable wrote to stderr, "" if none
    pe_success,     \* main printed "Executable mutated successfully"
    pe_io,          \* the image I/O call that failed in this process, "none" if none
    pe_runs,        \* number of processes started so far
    pe_plain,       \* the .poly machine code as compiled (plaintext)
    pe_prev,        \* the file bytes when the current process started
    \* ---- backup classifier
    cls_dir,        \* the entries of the scanned directory, in readdir order
    cls_pc,         \* position of the running process
    cls_opened,     \* opendir succeeded
    cls_pos,        \* number of directory entries readdir has returned
    cls_files,      \* FileInfo files[0 .. file_count - 1]
    cls_i,          \* loop index of classify_files_with_llm
    cls_sensitive_count,  \* sensitive_count
    cls_exit,       \* exit code of the process, -1 while it runs
    cls_scan_dir,   \* scan_dir: argv[1], or "." without an argument
    cls_bdir,       \* what ./sensitive_backups is: "absent", "dir", "notdir"
    cls_disk,       \* the files under the paths of the model: content and mode
    cls_clock,      \* the time, in seconds from the model's first instant
    cls_j,          \* loop index of main's backup loop
    cls_backed_up,  \* backed_up
    cls_log,        \* the calls of main's backup stage so far, with outcomes
    cls_reported,   \* the count printed by "Backup completed", -1 if none
    cls_orig,       \* cls_disk when the running process started
    cls_runs        \* number of processes started so far

xorVars == <<x_fn, x_orig, x_data, x_addkey, x_n>>
elfVars == <<elf_shdrs, elf_disk, elf_pc, elf_key, elf_file_key, elf_rt_poly,
             elf_data_prot, elf_exe_data, elf_exit, elf_err, elf_runs, elf_plain,
             elf_prev, elf_executed>>
peVars == <<pe_hdr, pe_sections, pe_file, pe_pc, pe_key, pe_file_key, pe_mapped,
            pe_exit, pe_err, pe_warn, pe_success, pe_io, pe_runs, pe_plain, pe_prev>>
clsVars == <<cls_dir, cls_pc, cls_opened, cls_pos, cls_files, cls_i,
             cls_sensitive_count, cls_exit, cls_scan_dir, cls_bdir, cls_disk,
             cls_clock, cls_j, cls_backed_up, cls_log, cls_reported, cls_orig,
             cls_runs>>
vars == <<prog, xorVars, elfVars, peVars, clsVars>>

\* what the actions of one program leave alone
notXor == <<prog, elfVars, peVars, clsVars>>
notElf == <<prog, xorVars, peVars, clsVars>>
notPe == <<prog, xorVars, elfVars, clsVars>>
notCls == <<prog, xorVars, elfVars, peVars>>

(***************************************************************************)
(* Program constants.                                                      *)
(***************************************************************************)
KEY_SIZE == 8

\* "\x01\x01\x01\x01\x01\x01\x01\x01": eight bytes and the string's NUL
ORIG_KEY == <<1, 1, 1, 1, 1, 1, 1, 1, 0>>

CUSTOM_SECTION == ".poly"

NULL == 0

(***************************************************************************)
(* Bounds of the model.                                                    *)
(***************************************************************************)
\* number of distinct 8-byte keys rand() may produce in one draw
MaxRandKeys == 3

\* number of consecutive executions of a mutator
MaxRuns == 2

\* longest buffer the transform is applied to in isolation (> KEY_SIZE)
MaxXorLen == 9

\* number of successive applications of the transform to one buffer
MaxApply == 2

\* number of entries in the scanned directory besides "." and ".."
MaxEntries == 3

\* number of classifier processes run one after the other
MaxClsRuns == 2

\* the last second of the classifier's clock
MaxClock == 1

\* number of entries of a directory whose files are backed up, besides "."
\* and ".."
MaxBackupEntries == 3

(***************************************************************************)
(* Bytes and small helpers.                                                *)
(***************************************************************************)
Min(a, b) == IF a <= b THEN a ELSE b

RECURSIVE BitXor(_, _)
BitXor(a, b) ==
    IF a = 0 THEN b
    ELSE IF b = 0 THEN a
    ELSE 2 * BitXor(a \div 2, b \div 2) + ((a + b) % 2)

\* the byte transform with + in place of ^
xor_byte_add(b, k) == (b + (k - 1)) % 256

\* data[i] ^= (k - 1) on an unsigned char: k - 1 is an int (-1 for k = 0) and
\* the result is truncated to 8 bits on the store
xor_byte(b, k) == BitXor(b, (k - 1) % 256)

\* the keys one pass of "for i < KEY_SIZE: key[i] = rand() % 255" may draw:
\* every byte is in 0..254.  Sample 1 is the bootstrap key itself, sample 2
\* has the bytes for which key - 1 underflows.
RandKey(n) ==
    [i \in 1..KEY_SIZE |->
        CASE n = 1 -> 1
          [] n = 2 -> 0
          [] n = 3 -> IF i % 2 = 1 THEN 254 ELSE 2
          [] OTHER -> (n * 71 + i * 29) % 255]

RandKeys == {RandKey(n) : n \in 1..MaxRandKeys}

\* overwrite the first KEY_SIZE bytes of a key array, keeping its NUL
SetKey(arr, k) == [i \in 1..Len(arr) |-> IF i <= KEY_SIZE THEN k[i] ELSE arr[i]]

(***************************************************************************)
(* ELF mutator: the byte transforms.                                       *)
(***************************************************************************)
\* xor_crypt(data, len): data is the byte region starting at the pointer
elf_xor_crypt(data, len) ==
    [i \in 1..Len(data) |->
        IF i <= len THEN xor_byte(data[i], elf_key[((i - 1) % KEY_SIZE) + 1])
        ELSE data[i]]

elf_xor_crypt_file(data, len) ==
    [i \in 1..Len(data) |->
        IF i <= len THEN xor_byte(data[i], elf_file_key[((i - 1) % KEY_SIZE) + 1])
        ELSE data[i]]

(***************************************************************************)
(* ELF mutator: the executable image.                                      *)
(* The image is a flat byte array; a section header gives a section's     *)
(* name, file offset, size and load address.  Layout used by the model:   *)
(*   <code> | .rodata (2) | .data (18: key[9], file_key[9]) | .comment (3) *)
(* .bss occupies no file bytes (SHT_NOBITS): its sh_offset is the end of  *)
(* .data, so its sh_size bytes in the file are the bytes that follow.     *)
(***************************************************************************)
RodataBytes == <<61, 10>>

CommentBytes == <<71, 67, 67>>

ElfShdrs(codeName, L) ==
    << [name |-> codeName,   sh_offset |-> 0,      sh_size |-> L,  sh_addr |-> 1],
       [name |-> ".rodata",  sh_offset |-> L,      sh_size |-> 2,  sh_addr |-> 2],
       [name |-> ".data",    sh_offset |-> L + 2,  sh_size |-> 18, sh_addr |-> 3],
       [name |-> ".bss",     sh_offset |-> L + 20, sh_size |-> 2,  sh_addr |-> 4],
       [name |-> ".comment", sh_offset |-> L + 20, sh_size |-> 3,  sh_addr |-> 0] >>

\* the image the compiler produces: code in plaintext, both keys ORIG_KEY
ElfImage(plain) == plain \o RodataBytes \o ORIG_KEY \o ORIG_KEY \o CommentBytes

\* machine code of demonstrate_polymorphism(), as compiled
PolySamples ==
    { <<85, 72, 137>>,
      <<85, 72, 137, 229, 72, 141, 61, 0, 195, 144>> }

\* the bytes from pointer data + off to the end of the buffer, and their store
At(data, off) == SubSeq(data, off + 1, Len(data))

Put(data, off, region) == SubSeq(data, 1, off) \o region

RECURSIVE get_section_from(_, _, _)
get_section_from(shdrs, section_name, i) ==
    IF i > Len(shdrs) THEN NULL
    ELSE IF shdrs[i].name = section_name THEN i
    ELSE get_section_from(shdrs, section_name, i + 1)

\* a lookup that falls back to the first header instead of NULL
get_section_or_first(shdrs, section_name) ==
    IF get_section_from(shdrs, section_name, 1) = NULL THEN 1
    ELSE get_section_from(shdrs, section_name, 1)

\* index of the first header with that name, NULL if there is none
get_section(shdrs, section_name) == get_section_from(shdrs, section_name, 1)

\* the section's bytes in an image
SectionBytes(shdrs, img, section_name) ==
    LET s == get_section(shdrs, section_name)
    IN  IF s = NULL THEN <<>>
        ELSE SubSeq(img, shdrs[s].sh_offset + 1, shdrs[s].sh_offset + shdrs[s].sh_size)

\* where the linker put the two key arrays inside .data
KeyOff == 0

FileKeyOff == 9

\* st_size of the executable as built
ElfFileSize == Len(ElfImage(elf_plain))

(***************************************************************************)
(* ELF mutator: the process.                                               *)
(***************************************************************************)
ElfExit(status, msg) ==
    /\ elf_pc' = "idle"
    /\ elf_exit' = status
    /\ elf_err' = msg

\* die(data, msg): free(data), message to stderr, exit(EXIT_FAILURE)
elf_die(msg) ==
    /\ elf_exe_data' = <<>>
    /\ ElfExit("fail", msg)

\* The kernel loads the executable: the code and .data are mapped from the file.
elf_exec ==
    /\ prog = "elf"
    /\ elf_pc = "idle"
    /\ elf_runs < MaxRuns
    /\ elf_disk.present
    /\ Len(elf_disk.bytes) = ElfFileSize
    /\ LET d == SectionBytes(elf_shdrs, elf_disk.bytes, ".data")
       IN  /\ elf_key' = SubSeq(d, KeyOff + 1, KeyOff + KEY_SIZE + 1)
           /\ elf_file_key' = SubSeq(d, FileKeyOff + 1, FileKeyOff + KEY_SIZE + 1)
    /\ elf_rt_poly' = SubSeq(elf_disk.bytes, 1, elf_shdrs[1].sh_size)
    /\ elf_data_prot' = "rw"
    /\ elf_exe_data' = <<>>
    /\ elf_pc' = "ctor"
    /\ elf_exit' = "running"
    /\ elf_err' = ""
    /\ elf_runs' = elf_runs + 1
    /\ elf_prev' = elf_disk
    /\ elf_executed' = <<>>
    /\ UNCHANGED <<notElf, elf_shdrs, elf_disk, elf_plain>>

\* xor_crypt_file over the loaded .data, which holds file_key itself: every
\* iteration reads the key bytes as they are in memory at that moment
RECURSIVE xor_crypt_file_live(_, _, _)
xor_crypt_file_live(mem, i, len) ==
    IF i >= len THEN mem
    ELSE xor_crypt_file_live(
            [mem EXCEPT ![i + 1] = xor_byte(@, mem[FileKeyOff + (i % KEY_SIZE) + 1])],
            i + 1, len)

\* decrypt_runtime_sections(), the constructor that runs before main().  It
\* returns early when readlink, open or malloc fails.  Otherwise .data,
\* .rodata and .bss are transformed in memory at sh_addr and their pages are
\* left PROT_READ; the results of mprotect are not looked at.  In a
\* position-independent build sh_addr is not an address of the process and
\* the first store faults.  Of the loaded data the model keeps .data, which
\* holds key and file_key.
decrypt_runtime_sections ==
    /\ prog = "elf"
    /\ elf_pc = "ctor"
    /\ \E outcome \in {"readlink_failed", "open_failed", "malloc_failed",
                       "done", "fault"} :
         LET s == get_section(elf_shdrs, ".data")
             todo == /\ s # NULL
                     /\ elf_shdrs[s].sh_size > 0
                     /\ elf_shdrs[s].sh_addr # 0
             mem == xor_crypt_file_live(elf_key \o elf_file_key, 0,
                                        elf_shdrs[s].sh_size)
         IN  CASE outcome = "done" /\ todo ->
                    /\ elf_key' = SubSeq(mem, KeyOff + 1, KeyOff + KEY_SIZE + 1)
                    /\ elf_file_key' =
                           SubSeq(mem, FileKeyOff + 1, FileKeyOff + KEY_SIZE + 1)
                    /\ elf_data_prot' = "r"
                    /\ elf_pc' = "main"
                    /\ UNCHANGED <<elf_exit, elf_err>>
               [] outcome = "fault" /\ todo ->
                    /\ ElfExit("crash", "")
                    /\ UNCHANGED <<elf_key, elf_file_key, elf_data_prot>>
               [] OTHER ->
                    /\ elf_pc' = "main"
                    /\ UNCHANGED <<elf_key, elf_file_key, elf_data_prot,
                                   elf_exit, elf_err>>
    /\ UNCHANGED <<notElf, elf_shdrs, elf_disk, elf_rt_poly, elf_exe_data,
                   elf_runs, elf_plain, elf_prev, elf_executed>>

\* main(), lines 46-76: read the own executable into exe_data
elf_main_read ==
    /\ prog = "elf"
    /\ elf_pc = "main"
    /\ \E outcome \in {"open_failed", "malloc_failed", "ok"} :
         CASE outcome = "open_failed" ->
                /\ ElfExit("fail", "Could not read executable file\n")
                /\ UNCHANGED elf_exe_data
           [] outcome = "malloc_failed" ->
                /\ ElfExit("fail", "Could not allocate memory\n")
                /\ UNCHANGED elf_exe_data
           [] OTHER ->
                /\ elf_exe_data' = elf_disk.bytes
                /\ elf_pc' = "demo"
                /\ UNCHANGED <<elf_exit, elf_err>>
    /\ UNCHANGED <<notElf, elf_shdrs, elf_disk, elf_key, elf_file_key,
                   elf_rt_poly, elf_data_prot, elf_runs, elf_plain, elf_prev,
                   elf_executed>>

\* main(), line 79: the processor executes the loaded bytes of
\* demonstrate_polymorphism() as they are.  Bytes that are not the compiled
\* code are arbitrary instructions: the process may fault or carry on.
demonstrate_polymorphism ==
    /\ prog = "elf"
    /\ elf_pc = "demo"
    /\ elf_executed' = elf_rt_poly
    /\ \/ /\ elf_pc' = "mutate"
          /\ UNCHANGED <<elf_exit, elf_err>>
       \/ /\ elf_rt_poly # elf_plain
          /\ ElfExit("crash", "")
    /\ UNCHANGED <<notElf, elf_shdrs, elf_disk, elf_key, elf_file_key,
                   elf_rt_poly, elf_data_prot, elf_exe_data, elf_runs, elf_plain,
                   elf_prev>>

\* a transform that leaves the bytes alone
elf_crypt_at_none(data, off, len) == data

\* the transform applied in place to len bytes at data + off
elf_crypt_at(data, off, len) == Put(data, off, elf_xor_crypt(At(data, off), len))

elf_crypt_file_at(data, off, len) ==
    Put(data, off, elf_xor_crypt_file(At(data, off), len))

\* one section transformed once
elf_encrypt_section_once(data, section_name) ==
    LET s == get_section(elf_shdrs, section_name)
    IN  IF s # NULL /\ elf_shdrs[s].sh_size > 0
        THEN elf_crypt_file_at(data, elf_shdrs[s].sh_offset, elf_shdrs[s].sh_size)
        ELSE data

\* encrypt_file_sections(data), one section: "decrypt first", then "re-encrypt
\* with new file key"; both calls read the same file_key
elf_encrypt_section(data, section_name) ==
    LET s == get_section(elf_shdrs, section_name)
    IN  IF s # NULL /\ elf_shdrs[s].sh_size > 0
        THEN elf_crypt_file_at(
                 elf_crypt_file_at(data, elf_shdrs[s].sh_offset, elf_shdrs[s].sh_size),
                 elf_shdrs[s].sh_offset, elf_shdrs[s].sh_size)
        ELSE data

elf_encrypt_file_sections(data) ==
    elf_encrypt_section(
        elf_encrypt_section(elf_encrypt_section(data, ".data"), ".rodata"), ".bss")

ElfMutateFrame == UNCHANGED <<notElf, elf_shdrs, elf_runs, elf_plain,
                              elf_prev, elf_executed>>

\* mutate(), lines 200-209: find the custom section
elf_mutate_find ==
    /\ prog = "elf"
    /\ elf_pc = "mutate"
    /\ IF get_section(elf_shdrs, CUSTOM_SECTION) = NULL
       THEN elf_die("Could not find polymorphic section\n")
       ELSE /\ elf_pc' = "found"
            /\ UNCHANGED <<elf_exe_data, elf_exit, elf_err>>
    /\ UNCHANGED <<elf_disk, elf_key, elf_file_key, elf_rt_poly, elf_data_prot>>
    /\ ElfMutateFrame

\* mutate(), lines 211-231: decrypt the runtime and the file copy of .poly
\* with the current key, between two mprotect calls
elf_mutate_decrypt ==
    /\ prog = "elf"
    /\ elf_pc = "found"
    /\ LET s == get_section(elf_shdrs, CUSTOM_SECTION)
           off == elf_shdrs[s].sh_offset
           size == elf_shdrs[s].sh_size
       IN  \E outcome \in {"writable_failed", "restore_failed", "ok"} :
             CASE outcome = "writable_failed" ->
                    /\ elf_die("Could not make memory writable\n")
                    /\ UNCHANGED elf_rt_poly
               [] outcome = "restore_failed" ->
                    /\ elf_rt_poly' = elf_xor_crypt(elf_rt_poly, size)
                    /\ elf_die("Could not restore memory protection\n")
               [] OTHER ->
                    /\ elf_rt_poly' = elf_xor_crypt(elf_rt_poly, size)
                    /\ elf_exe_data' = elf_crypt_at(elf_exe_data, off, size)
                    /\ elf_pc' = "decrypted"
                    /\ UNCHANGED <<elf_exit, elf_err>>
    /\ UNCHANGED <<elf_disk, elf_key, elf_file_key, elf_data_prot>>
    /\ ElfMutateFrame

\* mutate(), lines 233-239: draw the new .poly key into the global key.  The
\* store faults when the constructor left the page of .data read-only.
elf_mutate_new_key ==
    /\ prog = "elf"
    /\ elf_pc = "decrypted"
    /\ IF elf_data_prot = "r"
       THEN /\ ElfExit("crash", "")
            /\ UNCHANGED elf_key
       ELSE /\ \E k \in RandKeys : elf_key' = SetKey(elf_key, k)
            /\ elf_pc' = "keyed"
            /\ UNCHANGED <<elf_exit, elf_err>>
    /\ UNCHANGED <<elf_disk, elf_file_key, elf_rt_poly, elf_data_prot, elf_exe_data>>
    /\ ElfMutateFrame

\* mutate(), lines 241-242: re-encrypt the file copy with the new key
elf_mutate_reencrypt ==
    /\ prog = "elf"
    /\ elf_pc = "keyed"
    /\ LET s == get_section(elf_shdrs, CUSTOM_SECTION)
       IN  elf_exe_data' =
               elf_crypt_at(elf_exe_data, elf_shdrs[s].sh_offset, elf_shdrs[s].sh_size)
    /\ elf_pc' = "reencrypted"
    /\ UNCHANGED <<elf_disk, elf_key, elf_file_key, elf_rt_poly, elf_data_prot,
                   elf_exit, elf_err>>
    /\ ElfMutateFrame

\* mutate(), lines 244-250: draw the new file key into the global file_key
elf_mutate_new_file_key ==
    /\ prog = "elf"
    /\ elf_pc = "reencrypted"
    /\ \E k \in RandKeys : elf_file_key' = SetKey(elf_file_key, k)
    /\ elf_pc' = "filekeyed"
    /\ UNCHANGED <<elf_disk, elf_key, elf_rt_poly, elf_data_prot, elf_exe_data,
                   elf_exit, elf_err>>
    /\ ElfMutateFrame

\* mutate(), lines 252-253
elf_mutate_encrypt_sections ==
    /\ prog = "elf"
    /\ elf_pc = "filekeyed"
    /\ elf_exe_data' = elf_encrypt_file_sections(elf_exe_data)
    /\ elf_pc' = "write"
    /\ UNCHANGED <<elf_disk, elf_key, elf_file_key, elf_rt_poly, elf_data_prot,
                   elf_exit, elf_err>>
    /\ ElfMutateFrame

\* the byte counts write(fd, data, filesize) may return when it does not fail
WriteCounts(filesize) == {0, filesize \div 2, filesize}

\* mutate(), lines 257-271: unlink the file, create it again, write the image.
\* write() is checked for < 0 only: a short count goes unnoticed.
elf_mutate_write ==
    /\ prog = "elf"
    /\ elf_pc = "write"
    /\ \/ /\ elf_die("Could not remove old file\n")          \* unlink < 0
          /\ UNCHANGED elf_disk
       \/ /\ elf_disk' = [present |-> FALSE, bytes |-> <<>>]  \* open < 0
          /\ elf_die("Could not create new file\n")
       \/ /\ elf_disk' = [present |-> TRUE, bytes |-> <<>>]   \* write < 0
          /\ elf_die("Could not write file\n")
       \/ \E n \in WriteCounts(Len(elf_exe_data)) :
            /\ elf_disk' = [present |-> TRUE, bytes |-> SubSeq(elf_exe_data, 1, n)]
            /\ elf_pc' = "written"
            /\ UNCHANGED <<elf_exe_data, elf_exit, elf_err>>
    /\ UNCHANGED <<elf_key, elf_file_key, elf_rt_poly, elf_data_prot>>
    /\ ElfMutateFrame

\* main(), lines 84-89: report success, free(exe_data), return 0
elf_main_finish ==
    /\ prog = "elf"
    /\ elf_pc = "written"
    /\ elf_exe_data' = <<>>
    /\ ElfExit("ok", "")
    /\ UNCHANGED <<elf_disk, elf_key, elf_file_key, elf_rt_poly, elf_data_prot>>
    /\ ElfMutateFrame

InitElf ==
    /\ prog = "elf"
    /\ \E plain \in PolySamples, codeName \in {CUSTOM_SECTION, ".text"} :
         /\ elf_plain = plain
         /\ elf_shdrs = ElfShdrs(codeName, Len(plain))
         /\ elf_disk = [present |-> TRUE, bytes |-> ElfImage(plain)]
         /\ elf_prev = [present |-> TRUE, bytes |-> ElfImage(plain)]
    /\ elf_pc = "idle"
    /\ elf_key = ORIG_KEY
    /\ elf_file_key = ORIG_KEY
    /\ elf_rt_poly = <<>>
    /\ elf_data_prot = "rw"
    /\ elf_exe_data = <<>>
    /\ elf_exit = "none"
    /\ elf_err = ""
    /\ elf_runs = 0
    /\ elf_executed = <<>>

\* the ELF mutator is not the program of this behaviour
IdleElfRest ==
    /\ elf_plain = <<>>
    /\ elf_shdrs = <<>>
    /\ elf_disk = [present |-> FALSE, bytes |-> <<>>]
    /\ elf_prev = [present |-> FALSE, bytes |-> <<>>]
    /\ elf_pc = "idle"
    /\ elf_rt_poly = <<>>
    /\ elf_data_prot = "rw"
    /\ elf_exe_data = <<>>
    /\ elf_exit = "none"
    /\ elf_err = ""
    /\ elf_runs = 0
    /\ elf_executed = <<>>

IdleElf ==
    /\ IdleElfRest
    /\ elf_key = ORIG_KEY
    /\ elf_file_key = ORIG_KEY

IdleXor ==
    /\ x_fn = "none"
    /\ x_orig = <<>>
    /\ x_data = <<>>
    /\ x_addkey = ORIG_KEY
    /\ x_n = 0

NextElf ==
    \/ elf_exec
    \/ decrypt_runtime_sections
    \/ elf_main_read
    \/ demonstrate_polymorphism
    \/ elf_mutate_find
    \/ elf_mutate_decrypt
    \/ elf_mutate_new_key
    \/ elf_mutate_reencrypt
    \/ elf_mutate_new_file_key
    \/ elf_mutate_encrypt_sections
    \/ elf_mutate_write
    \/ elf_main_finish

(***************************************************************************)
(* PE mutator: the byte transforms.                                        *)
(***************************************************************************)
pe_xor_crypt(data, len) ==
    [i \in 1..Len(data) |->
        IF i <= len THEN xor_byte(data[i], pe_key[((i - 1) % KEY_SIZE) + 1])
        ELSE data[i]]

pe_xor_crypt_additional(data, len, additional_key) ==
    [i \in 1..Len(data) |->
        IF i <= len THEN xor_byte(data[i], additional_key[((i - 1) % KEY_SIZE) + 1])
        ELSE data[i]]

(***************************************************************************)
(* PE mutator: the executable image.                                       *)
(* A flat byte array and a section table giving each section's Name,      *)
(* PointerToRawData and SizeOfRawData.  Layout used by the model:         *)
(*   <code> | .data (10: key[9] first, one more byte) | .rdata (2)         *)
(***************************************************************************)
IMAGE_DOS_SIGNATURE == "MZ"

IMAGE_NT_SIGNATURE == "PE"

RdataBytes == <<37, 115>>

PeSections(codeName, dataName, L) ==
    << [Name |-> codeName, PointerToRawData |-> 0,      SizeOfRawData |-> L],
       [Name |-> dataName, PointerToRawData |-> L,      SizeOfRawData |-> 10],
       [Name |-> ".rdata", PointerToRawData |-> L + 10, SizeOfRawData |-> 2] >>

PeImage(plain) == plain \o ORIG_KEY \o <<7>> \o RdataBytes

RECURSIVE find_section_from(_, _, _)
find_section_from(sections, name, i) ==
    IF i > Len(sections) THEN NULL
    ELSE IF sections[i].Name = name THEN i
    ELSE find_section_from(sections, name, i + 1)

\* index of the first section with that name; NULL if there is none or a
\* header signature is wrong
find_section(hdr, sections, name) ==
    IF hdr.e_magic # IMAGE_DOS_SIGNATURE THEN NULL
    ELSE IF hdr.Signature # IMAGE_NT_SIGNATURE THEN NULL
    ELSE find_section_from(sections, name, 1)

\* the raw bytes of a section in the file
PeRaw(file, name) ==
    LET s == find_section(pe_hdr, pe_sections, name)
    IN  IF s = NULL THEN <<>>
        ELSE SubSeq(file, pe_sections[s].PointerToRawData + 1,
                    pe_sections[s].PointerToRawData + pe_sections[s].SizeOfRawData)

(***************************************************************************)
(* PE mutator: the process.                                                *)
(***************************************************************************)
PeExit(status, msg) ==
    /\ pe_pc' = "idle"
    /\ pe_exit' = status
    /\ pe_err' = msg

\* a die() that returns quietly with status 0
pe_die_quiet(msg) == PeExit("ok", "")

\* die(msg): message and last error to stderr, exit(EXIT_FAILURE)
pe_die(msg) == PeExit("fail", msg)

\* The loader maps the executable.  key is taken to be the first object of
\* .data, the place mutate_executable reads and writes it in the file.
pe_exec ==
    /\ prog = "pe"
    /\ pe_pc = "idle"
    /\ pe_runs < MaxRuns
    /\ pe_key' = IF Len(PeRaw(pe_file, ".data")) >= KEY_SIZE + 1
                 THEN SubSeq(PeRaw(pe_file, ".data"), 1, KEY_SIZE + 1)
                 ELSE ORIG_KEY
    /\ pe_file_key' = <<>>
    /\ pe_mapped' = FALSE
    /\ pe_pc' = "main"
    /\ pe_exit' = "running"
    /\ pe_err' = ""
    /\ pe_warn' = ""
    /\ pe_success' = FALSE
    /\ pe_io' = "none"
    /\ pe_runs' = pe_runs + 1
    /\ pe_prev' = pe_file
    /\ UNCHANGED <<notPe, pe_hdr, pe_sections, pe_file, pe_plain>>

PeFrame == UNCHANGED <<notPe, pe_hdr, pe_sections, pe_runs, pe_plain, pe_prev>>

\* main(), lines 44-61
pe_main_start ==
    /\ prog = "pe"
    /\ pe_pc = "main"
    /\ \/ pe_die("Could not get executable path")
       \/ /\ pe_pc' = "demo"
          /\ UNCHANGED <<pe_exit, pe_err>>
    /\ UNCHANGED <<pe_file, pe_key, pe_file_key, pe_mapped, pe_warn, pe_success, pe_io>>
    /\ PeFrame

\* main(), line 64: the processor executes the loaded .poly bytes as they are
pe_demonstrate_polymorphism ==
    /\ prog = "pe"
    /\ pe_pc = "demo"
    /\ \/ /\ pe_pc' = "mutate"
          /\ UNCHANGED <<pe_exit, pe_err>>
       \/ /\ SubSeq(pe_file, 1, Len(pe_plain)) # pe_plain
          /\ PeExit("crash", "")
    /\ UNCHANGED <<pe_file, pe_key, pe_file_key, pe_mapped, pe_warn, pe_success, pe_io>>
    /\ PeFrame

\* mutate_executable(), lines 144-177: open, size and map the file
pe_mutate_open ==
    /\ prog = "pe"
    /\ pe_pc = "mutate"
    /\ \/ /\ pe_io' = "open"
          /\ pe_die("Could not open executable file")
          /\ UNCHANGED pe_mapped
       \/ /\ pe_io' = "size"
          /\ pe_die("Could not get file size")
          /\ UNCHANGED pe_mapped
       \/ /\ pe_io' = "mapping"
          /\ pe_die("Could not create file mapping")
          /\ UNCHANGED pe_mapped
       \/ /\ pe_io' = "view"
          /\ pe_die("Could not map view of file")
          /\ UNCHANGED pe_mapped
       \/ /\ pe_mapped' = TRUE
          /\ pe_pc' = "mapped"
          /\ UNCHANGED <<pe_exit, pe_err, pe_io>>
    /\ UNCHANGED <<pe_file, pe_key, pe_file_key, pe_warn, pe_success>>
    /\ PeFrame

\* mutate_executable(), lines 179-198: find .data and the custom section
pe_mutate_find ==
    /\ prog = "pe"
    /\ pe_pc = "mapped"
    /\ IF find_section(pe_hdr, pe_sections, ".data") = NULL
       THEN /\ pe_mapped' = FALSE
            /\ pe_die("Could not find .data section")
       ELSE IF find_section(pe_hdr, pe_sections, CUSTOM_SECTION) = NULL
       THEN /\ pe_mapped' = FALSE
            /\ pe_die("Could not find polymorphic section")
       ELSE /\ pe_pc' = "found"
            /\ UNCHANGED <<pe_mapped, pe_exit, pe_err>>
    /\ UNCHANGED <<pe_file, pe_key, pe_file_key, pe_warn, pe_success, pe_io>>
    /\ PeFrame

\* the transform applied in place to len bytes of the view at offset off
pe_crypt_at(data, off, len) == Put(data, off, pe_xor_crypt(At(data, off), len))

\* a memcpy that stores nothing
PeStoreNone(data, off, src, n) == data

\* memcpy(dst + off, src, n) into the view
PeStore(data, off, src, n) ==
    [i \in 1..Len(data) |-> IF off < i /\ i <= off + n THEN src[i - off] ELSE data[i]]

\* mutate_executable(), lines 200-210: memcpy(key, key_in_file, KEY_SIZE)
pe_mutate_load_key ==
    /\ prog = "pe"
    /\ pe_pc = "found"
    /\ LET d == pe_sections[find_section(pe_hdr, pe_sections, ".data")]
       IN  pe_key' = SetKey(pe_key, At(pe_file, d.PointerToRawData))
    /\ pe_pc' = "loaded"
    /\ UNCHANGED <<pe_file, pe_file_key, pe_mapped, pe_exit, pe_err, pe_warn,
                   pe_success, pe_io>>
    /\ PeFrame

\* mutate_executable(), lines 212-216: decrypt .poly in the view with the old key
pe_mutate_decrypt ==
    /\ prog = "pe"
    /\ pe_pc = "loaded"
    /\ LET p == pe_sections[find_section(pe_hdr, pe_sections, CUSTOM_SECTION)]
       IN  pe_file' = pe_crypt_at(pe_file, p.PointerToRawData, p.SizeOfRawData)
    /\ pe_pc' = "decrypted"
    /\ UNCHANGED <<pe_key, pe_file_key, pe_mapped, pe_exit, pe_err, pe_warn,
                   pe_success, pe_io>>
    /\ PeFrame

\* mutate_executable(), lines 218-227: draw the new key and store it in the
\* file's .data: memcpy(key_in_file, key, KEY_SIZE)
pe_mutate_new_key ==
    /\ prog = "pe"
    /\ pe_pc = "decrypted"
    /\ LET d == pe_sections[find_section(pe_hdr, pe_sections, ".data")]
       IN  \E k \in RandKeys :
             /\ pe_key' = SetKey(pe_key, k)
             /\ pe_file' = PeStore(pe_file, d.PointerToRawData, k, KEY_SIZE)
    /\ pe_pc' = "keyed"
    /\ UNCHANGED <<pe_file_key, pe_mapped, pe_exit, pe_err, pe_warn, pe_success, pe_io>>
    /\ PeFrame

\* mutate_executable(), lines 229-230: re-encrypt .poly with the new key
pe_mutate_reencrypt ==
    /\ prog = "pe"
    /\ pe_pc = "keyed"
    /\ LET p == pe_sections[find_section(pe_hdr, pe_sections, CUSTOM_SECTION)]
       IN  pe_file' = pe_crypt_at(pe_file, p.PointerToRawData, p.SizeOfRawData)
    /\ pe_pc' = "reencrypted"
    /\ UNCHANGED <<pe_key, pe_file_key, pe_mapped, pe_exit, pe_err, pe_warn,
                   pe_success, pe_io>>
    /\ PeFrame

\* mutate_executable(), lines 232-239: draw the local file key
pe_mutate_new_file_key ==
    /\ prog = "pe"
    /\ pe_pc = "reencrypted"
    /\ \E k \in RandKeys : pe_file_key' = k
    /\ pe_pc' = "filekeyed"
    /\ UNCHANGED <<pe_file, pe_key, pe_mapped, pe_exit, pe_err, pe_warn,
                   pe_success, pe_io>>
    /\ PeFrame

\* encrypt_file_sections(mapped_data, file_key): .rdata only
pe_encrypt_file_sections(mapped_data, file_key) ==
    LET s == find_section(pe_hdr, pe_sections, ".rdata")
    IN  IF s # NULL /\ pe_sections[s].SizeOfRawData > 0
        THEN Put(mapped_data, pe_sections[s].PointerToRawData,
                 pe_xor_crypt_additional(
                     At(mapped_data, pe_sections[s].PointerToRawData),
                     pe_sections[s].SizeOfRawData, file_key))
        ELSE mapped_data

\* mutate_executable(), lines 241-242
pe_mutate_encrypt_sections ==
    /\ prog = "pe"
    /\ pe_pc = "filekeyed"
    /\ pe_file' = pe_encrypt_file_sections(pe_file, pe_file_key)
    /\ pe_pc' = "flush"
    /\ UNCHANGED <<pe_key, pe_file_key, pe_mapped, pe_exit, pe_err, pe_warn,
                   pe_success, pe_io>>
    /\ PeFrame

\* mutate_executable(), lines 244-255: flush the view, unmap, close.  A failed
\* FlushViewOfFile is reported as a warning and the function returns.
pe_mutate_flush ==
    /\ prog = "pe"
    /\ pe_pc = "flush"
    /\ \/ /\ pe_io' = "flush"
          /\ pe_warn' = "Warning: Could not flush view of file\n"
       \/ UNCHANGED <<pe_io, pe_warn>>
    /\ pe_mapped' = FALSE
    /\ pe_pc' = "flushed"
    /\ UNCHANGED <<pe_file, pe_key, pe_file_key, pe_exit, pe_err, pe_success>>
    /\ PeFrame

\* main(), lines 69-73: report success, return 0
pe_main_finish ==
    /\ prog = "pe"
    /\ pe_pc = "flushed"
    /\ pe_success' = TRUE
    /\ PeExit("ok", "")
    /\ UNCHANGED <<pe_file, pe_key, pe_file_key, pe_mapped, pe_warn, pe_io>>
    /\ PeFrame

\* the executables the PE mutator may be built as: complete, or lacking the
\* custom section or .data, or with a wrong header signature
PeBuilds ==
    { [code |-> CUSTOM_SECTION, data |-> ".data", magic |-> "MZ", sig |-> "PE"],
      [code |-> ".text",        data |-> ".data", magic |-> "MZ", sig |-> "PE"],
      [code |-> CUSTOM_SECTION, data |-> ".dat",  magic |-> "MZ", sig |-> "PE"],
      [code |-> CUSTOM_SECTION, data |-> ".data", magic |-> "ZM", sig |-> "PE"],
      [code |-> CUSTOM_SECTION, data |-> ".data", magic |-> "MZ", sig |-> "NE"] }

InitPe ==
    /\ prog = "pe"
    /\ \E plain \in PolySamples, b \in PeBuilds :
         /\ pe_plain = plain
         /\ pe_hdr = [e_magic |-> b.magic, Signature |-> b.sig]
         /\ pe_sections = PeSections(b.code, b.data, Len(plain))
         /\ pe_file = PeImage(plain)
         /\ pe_prev = PeImage(plain)
    /\ pe_pc = "idle"
    /\ pe_key = ORIG_KEY
    /\ pe_file_key = <<>>
    /\ pe_mapped = FALSE
    /\ pe_exit = "none"
    /\ pe_err = ""
    /\ pe_warn = ""
    /\ pe_success = FALSE
    /\ pe_io = "none"
    /\ pe_runs = 0

\* the PE mutator is not the program of this behaviour
IdlePeRest ==
    /\ pe_plain = <<>>
    /\ pe_hdr = [e_magic |-> "MZ", Signature |-> "PE"]
    /\ pe_sections = <<>>
    /\ pe_file = <<>>
    /\ pe_prev = <<>>
    /\ pe_pc = "idle"
    /\ pe_file_key = <<>>
    /\ pe_mapped = FALSE
    /\ pe_exit = "none"
    /\ pe_err = ""
    /\ pe_warn = ""
    /\ pe_success = FALSE
    /\ pe_io = "none"
    /\ pe_runs = 0

IdlePe ==
    /\ IdlePeRest
    /\ pe_key = ORIG_KEY

NextPe ==
    \/ pe_exec
    \/ pe_main_start
    \/ pe_demonstrate_polymorphism
    \/ pe_mutate_open
    \/ pe_mutate_find
    \/ pe_mutate_load_key
    \/ pe_mutate_decrypt
    \/ pe_mutate_new_key
    \/ pe_mutate_reencrypt
    \/ pe_mutate_new_file_key
    \/ pe_mutate_encrypt_sections
    \/ pe_mutate_flush
    \/ pe_main_finish

(***************************************************************************)
(* Backup classifier.  Text is a sequence of characters.                   *)
(***************************************************************************)
MAX_FILES == 1000

MAX_FILENAME_LEN == 256

Upper == <<"A", "B", "C", "D", "E", "F", "G", "H", "I", "J", "K", "L", "M", "N", "O", "P", "Q", "R", "S", "T", "U", "V", "W", "X", "Y", "Z">>

Lower == <<"a", "b", "c", "d", "e", "f", "g", "h", "i", "j", "k", "l", "m", "n", "o", "p", "q", "r", "s", "t", "u", "v", "w", "x", "y", "z">>

\* tolower() of the C locale
tolower(c) ==
    IF \E n \in 1..Len(Upper) : Upper[n] = c
    THEN Lower[CHOOSE n \in 1..Len(Upper) : Upper[n] = c]
    ELSE c

\* strncpy(dst, src, n) of a string shorter than n, dst read as a string
strncpy(src, n) == SubSeq(src, 1, Min(Len(src), n))

\* strstr(haystack, needle): offset + 1 of the first occurrence, NULL if none
RECURSIVE strstr_from(_, _, _)
strstr_from(haystack, needle, j) ==
    IF j + Len(needle) > Len(haystack) THEN NULL
    ELSE IF SubSeq(haystack, j + 1, j + Len(needle)) = needle THEN j + 1
    ELSE strstr_from(haystack, needle, j + 1)

strstr(haystack, needle) == strstr_from(haystack, needle, 0)

\* the entries a scanned directory is made of
EntryPool ==
    << [d_name |-> <<"T", "a", "x", "_", "2", "0", "2", "3", ".", "p", "d", "f">>,
        kind |-> "reg"],
       [d_name |-> <<"t", "a", "x", "_", "b", "a", "n", "k", "_", "s", "t", "a", "t", "e", "m", "e", "n", "t", ".", "p", "d", "f">>,
        kind |-> "reg"],
       [d_name |-> <<"v", "a", "c", "a", "t", "i", "o", "n", "_", "p", "h", "o", "t", "o", ".", "j", "p", "g">>,
        kind |-> "reg"],
       [d_name |-> <<"S", "e", "c", "r", "e", "t">>,
        kind |-> "dir"],
       [d_name |-> <<"k", "e", "y", ".", "l", "n", "k">>,
        kind |-> "lnk_reg"],
       [d_name |-> <<"d", "e", "a", "d">>,
        kind |-> "lnk_broken"],
       [d_name |-> <<"p", "i", "p", "e">>,
        kind |-> "fifo"],
       [d_name |-> <<"B", "a", "n", "k", "N", "D", "A">>,
        kind |-> "reg"],
       [d_name |-> <<"2", "0", "2", "6", "1", "1", "0", "3", "_", "1", "2", "0", "0", "0", "0", "_", "T", "a", "x", "_", "2", "0", "2", "3", ".", "p", "d", "f">>,
        kind |-> "reg"] >>

\* the bytes behind each entry of the pool and whether the process may open
\* it (BankNDA has mode 000); for a link, the file it resolves to
PoolFiles ==
    << [content |-> <<1, 2>>, readable |-> TRUE],
       [content |-> <<>>,     readable |-> TRUE],
       [content |-> <<3>>,    readable |-> TRUE],
       [content |-> <<>>,     readable |-> TRUE],
       [content |-> <<5>>,    readable |-> TRUE],
       [content |-> <<>>,     readable |-> FALSE],
       [content |-> <<>>,     readable |-> TRUE],
       [content |-> <<8>>,    readable |-> FALSE],
       [content |-> <<9>>,    readable |-> TRUE] >>

DotEntries == << [d_name |-> <<".">>, kind |-> "dir"],
                 [d_name |-> <<".", ".">>, kind |-> "dir"] >>

\* stat(full_path, &file_stat) follows symbolic links: -1 for a link whose
\* target is missing, otherwise the mode of the file the path resolves to
stat(entry) ==
    CASE entry.kind = "reg" -> [rc |-> 0, S_ISREG |-> TRUE]
      [] entry.kind = "lnk_reg" -> [rc |-> 0, S_ISREG |-> TRUE]
      [] entry.kind = "lnk_broken" -> [rc |-> -1, S_ISREG |-> FALSE]
      [] OTHER -> [rc |-> 0, S_ISREG |-> FALSE]

\* scan_dir without an argument: "."
ScanDir == <<".">>

\* snprintf(full_path, sizeof(full_path), "%s/%s", dir_path, d_name)
full_path(dir_path, d_name) ==
    strncpy(dir_path \o <<"/">> \o d_name, MAX_FILENAME_LEN * 2 - 1)

\* what scanning and classifying leave alone
ClsFrame == UNCHANGED <<notCls, cls_dir, cls_scan_dir, cls_bdir, cls_disk,
                        cls_clock, cls_j, cls_backed_up, cls_log, cls_reported,
                        cls_orig, cls_runs>>

\* scan_directory(), lines 102-111: opendir
scan_directory_open ==
    /\ prog = "cls"
    /\ cls_pc = "start"
    /\ \/ /\ cls_opened' = FALSE          \* perror, return
          /\ cls_pc' = "scanned"
       \/ /\ cls_opened' = TRUE
          /\ cls_pc' = "scan"
    /\ UNCHANGED <<cls_pos, cls_files, cls_i, cls_sensitive_count, cls_exit>>
    /\ ClsFrame

\* scan_directory(), lines 113-136: one iteration of the readdir loop
scan_directory_entry ==
    /\ prog = "cls"
    /\ cls_pc = "scan"
    /\ cls_pos < Len(cls_dir)
    /\ Len(cls_files) < MAX_FILES
    /\ LET entry == cls_dir[cls_pos + 1]
           path == full_path(cls_scan_dir, entry.d_name)
       IN  /\ cls_pos' = cls_pos + 1
           /\ cls_files' =
                IF entry.d_name = <<".">> \/ entry.d_name = <<".", ".">> THEN cls_files
                ELSE IF stat(entry).rc = -1 THEN cls_files
                ELSE IF stat(entry).S_ISREG
                THEN Append(cls_files,
                            [filename |-> strncpy(entry.d_name, MAX_FILENAME_LEN - 1),
                             filepath |-> strncpy(path, MAX_FILENAME_LEN * 2 - 1),
                             is_sensitive |-> 0,
                             reason |-> <<>>])
                ELSE cls_files
    /\ UNCHANGED <<cls_pc, cls_opened, cls_i, cls_sensitive_count, cls_exit>>
    /\ ClsFrame

\* scan_directory(), lines 113 and 138: the loop ends, closedir
scan_directory_close ==
    /\ prog = "cls"
    /\ cls_pc = "scan"
    /\ ~(cls_pos < Len(cls_dir) /\ Len(cls_files) < MAX_FILES)
    /\ cls_pc' = "scanned"
    /\ UNCHANGED <<cls_opened, cls_pos, cls_files, cls_i, cls_sensitive_count, cls_exit>>
    /\ ClsFrame

\* main(), lines 63-72: nothing found, or start the classification
cls_main_scanned ==
    /\ prog = "cls"
    /\ cls_pc = "scanned"
    /\ IF Len(cls_files) = 0
       THEN /\ cls_pc' = "exit"
            /\ cls_exit' = 0
            /\ UNCHANGED <<cls_i, cls_sensitive_count>>
       ELSE /\ cls_pc' = "classify"
            /\ cls_i' = 0
            /\ cls_sensitive_count' = 0
            /\ UNCHANGED cls_exit
    /\ UNCHANGED <<cls_opened, cls_pos, cls_files>>
    /\ ClsFrame

sensitive_keywords ==
    << <<"t", "a", "x">>,
       <<"b", "a", "n", "k">>,
       <<"p", "a", "s", "s", "p", "o", "r", "t">>,
       <<"s", "s", "n">>,
       <<"c", "o", "n", "f", "i", "d", "e", "n", "t", "i", "a", "l">>,
       <<"p", "r", "i", "v", "a", "t", "e">>,
       <<"s", "e", "c", "r", "e", "t">>,
       <<"p", "a", "s", "s", "w", "o", "r", "d">>,
       <<"k", "e", "y">>,
       <<"i", "n", "v", "o", "i", "c", "e">>,
       <<"c", "o", "n", "t", "r", "a", "c", "t">>,
       <<"n", "d", "a">>,
       <<"m", "e", "d", "i", "c", "a", "l">>,
       <<"l", "e", "g", "a", "l">>,
       <<"f", "i", "n", "a", "n", "c", "i", "a", "l">> >>

ReasonPrefix == <<"C", "o", "n", "t", "a", "i", "n", "s", " ", "k", "e", "y", "w", "o", "r", "d", ":", " ">>

\* lines 214-220: the lower-cased copy of the name
lowercase_name(filename) ==
    LET copy == strncpy(filename, MAX_FILENAME_LEN - 1)
    IN  [j \in 1..Len(copy) |-> tolower(copy[j])]

\* lines 223-231: index of the first keyword, in list order from k on, that
\* occurs in the name; NULL if none does
RECURSIVE first_keyword_from(_, _)
first_keyword_from(name, k) ==
    IF k > Len(sensitive_keywords) THEN NULL
    ELSE IF strstr(name, sensitive_keywords[k]) # NULL THEN k
    ELSE first_keyword_from(name, k + 1)

RECURSIVE last_keyword_from(_, _)
last_keyword_from(name, k) ==
    IF k > Len(sensitive_keywords) THEN NULL
    ELSE LET later == last_keyword_from(name, k + 1)
         IN  IF later # NULL THEN later
             ELSE IF strstr(name, sensitive_keywords[k]) # NULL THEN k
             ELSE NULL

\* the keyword loop without its break: the last matching keyword wins
first_keyword_last(name) == last_keyword_from(name, 1)

first_keyword(name) == first_keyword_from(name, 1)

\* classify_files_with_llm(), lines 213-232: one iteration of the outer loop
classify_file ==
    /\ prog = "cls"
    /\ cls_pc = "classify"
    /\ cls_i < Len(cls_files)
    /\ LET k == first_keyword(lowercase_name(cls_files[cls_i + 1].filename))
       IN  IF k # NULL
           THEN /\ cls_files' =
                      [cls_files EXCEPT ![cls_i + 1].is_sensitive = 1,
                                        ![cls_i + 1].reason =
                                            ReasonPrefix \o sensitive_keywords[k]]
                /\ cls_sensitive_count' = cls_sensitive_count + 1
           ELSE UNCHANGED <<cls_files, cls_sensitive_count>>
    /\ cls_i' = cls_i + 1
    /\ UNCHANGED <<cls_pc, cls_opened, cls_pos, cls_exit>>
    /\ ClsFrame

\* classify_files_with_llm(), line 234: return sensitive_count
classify_return ==
    /\ prog = "cls"
    /\ cls_pc = "classify"
    /\ cls_i >= Len(cls_files)
    /\ cls_pc' = "classified"
    /\ UNCHANGED <<cls_opened, cls_pos, cls_files, cls_i, cls_sensitive_count, cls_exit>>
    /\ ClsFrame

\* main(), lines 74-80: nothing sensitive, or go on to the backups
cls_main_classified ==
    /\ prog = "cls"
    /\ cls_pc = "classified"
    /\ IF cls_sensitive_count = 0
       THEN /\ cls_pc' = "exit"
            /\ cls_exit' = 0
       ELSE /\ cls_pc' = "backup"
            /\ UNCHANGED cls_exit
    /\ UNCHANGED <<cls_opened, cls_pos, cls_files, cls_i, cls_sensitive_count>>
    /\ ClsFrame

(***************************************************************************)
(* Backup stage of the classifier.  A file of cls_disk is a record of its  *)
(* bytes and of whether the process may open it.                           *)
(***************************************************************************)
BACKUP_DIR == <<".", "/", "s", "e", "n", "s", "i", "t", "i", "v", "e", "_", "b", "a", "c", "k", "u", "p", "s">>

Digits == <<"0", "1", "2", "3", "4", "5", "6", "7", "8", "9">>

\* printf's "%0<width>d" of a number n >= 0
RECURSIVE fmt_d(_, _)
fmt_d(n, width) ==
    IF n < 10 /\ width <= 1 THEN <<Digits[n + 1]>>
    ELSE fmt_d(n \div 10, width - 1) \o <<Digits[(n % 10) + 1]>>

\* localtime(&now); the first instant of the model is 2026-11-03 12:00:00
localtime(now) ==
    [tm_year |-> 126, tm_mon |-> 10, tm_mday |-> 3,
     tm_hour |-> 12, tm_min |-> (now \div 60) % 60, tm_sec |-> now % 60]

\* the file name of a backup: "%04d%02d%02d_%02d%02d%02d_%s"
backup_name(t, filename) ==
    fmt_d(t.tm_year + 1900, 4) \o fmt_d(t.tm_mon + 1, 2) \o fmt_d(t.tm_mday, 2)
      \o <<"_">>
      \o fmt_d(t.tm_hour, 2) \o fmt_d(t.tm_min, 2) \o fmt_d(t.tm_sec, 2)
      \o <<"_">> \o filename

\* create_backup(), lines 252-257: snprintf(backup_path, sizeof(backup_path), ...)
backup_path(t, filename) ==
    strncpy(BACKUP_DIR \o <<"/">> \o backup_name(t, filename),
            MAX_FILENAME_LEN * 3 - 1)

\* sizeof(buffer) of the copy loop
BUFFER_SIZE == 8192

Store(disk, path, file) ==
    [p \in (DOMAIN disk) \cup {path} |-> IF p = path THEN file ELSE disk[p]]

\* fopen(path, "rb") succeeds
fopen_rb(disk, path) == path \in DOMAIN disk /\ disk[path].readable

\* an fopen(path, "ab"): the file keeps its bytes
fopen_ab(disk, path) ==
    IF path \in DOMAIN disk THEN disk
    ELSE Store(disk, path, [content |-> <<>>, readable |-> TRUE])

\* the disk after a successful fopen(path, "wb"): the file is created empty or
\* truncated
fopen_wb(disk, path) ==
    IF path \in DOMAIN disk
    THEN Store(disk, path, [disk[path] EXCEPT !.content = <<>>])
    ELSE Store(disk, path, [content |-> <<>>, readable |-> TRUE])

\* lines 274-278: the bytes the fread/fwrite loop moves, from offset off on
RECURSIVE copy_from(_, _)
copy_from(bytes, off) ==
    IF off >= Len(bytes) THEN <<>>
    ELSE SubSeq(bytes, off + 1, Min(off + BUFFER_SIZE, Len(bytes)))
           \o copy_from(bytes, off + BUFFER_SIZE)

\* create_backup(), lines 259-271: which fopen fails, "ok" if none does
create_backup_outcome(disk, bdir, file, path) ==
    IF ~fopen_rb(disk, file.filepath) THEN "src"
    ELSE IF bdir # "dir" THEN "dst"
    ELSE IF path \in DOMAIN disk /\ ~disk[path].readable THEN "dst"
    ELSE "ok"

\* create_backup(), lines 266-281: the disk after the copy; the source is
\* read after the destination was opened
create_backup_disk(disk, file, path) ==
    LET opened == fopen_wb(disk, path)
    IN  Store(opened, path,
              [opened[path] EXCEPT
                  !.content = @ \o copy_from(opened[file.filepath].content, 0)])

\* a loop that backs up every record
backup_wanted_all(file) == TRUE

\* main(), line 88: the record gets a backup
backup_wanted(file) == file.is_sensitive # 0

\* a loop that stops at the first failed copy
next_record_stop(j, n, outcome) == IF outcome = "ok" THEN j + 1 ELSE n

\* main(), line 87: the loop goes on to the next record whatever
\* create_backup did
next_record(j, n, outcome) == j + 1

ClsBackupFrame == UNCHANGED <<notCls, cls_opened, cls_pos, cls_files, cls_i,
                              cls_sensitive_count, cls_scan_dir, cls_orig, cls_runs>>

\* main(), lines 79-86: create_backup_directory(), lines 237-244: mkdir if
\* stat fails; mkdir's result is not looked at
create_backup_directory ==
    /\ prog = "cls"
    /\ cls_pc = "backup"
    /\ IF cls_bdir = "absent"
       THEN cls_bdir' \in {"dir", "absent"}
       ELSE UNCHANGED cls_bdir
    /\ cls_log' = Append(cls_log, [op |-> "create_backup_directory", i |-> 0,
                                   outcome |-> "", path |-> <<>>])
    /\ cls_j' = 0
    /\ cls_backed_up' = 0
    /\ cls_pc' = "copy"
    /\ UNCHANGED <<cls_dir, cls_disk, cls_clock, cls_reported, cls_exit>>
    /\ ClsBackupFrame

\* main(), lines 87-94: one iteration of the backup loop, with
\* create_backup(&files[i]), lines 246-284
create_backup ==
    /\ prog = "cls"
    /\ cls_pc = "copy"
    /\ cls_j < Len(cls_files)
    /\ LET file == cls_files[cls_j + 1]
       IN  IF backup_wanted(file)
           THEN \E now \in cls_clock..MaxClock :
                  LET path == backup_path(localtime(now), file.filename)
                      outcome == create_backup_outcome(cls_disk, cls_bdir, file, path)
                      created == outcome = "ok" /\ path \notin DOMAIN cls_disk
                  IN  /\ cls_clock' = now
                      /\ cls_disk' = IF outcome = "ok"
                                     THEN create_backup_disk(cls_disk, file, path)
                                     ELSE cls_disk
                      /\ cls_dir' = IF created /\ cls_scan_dir = BACKUP_DIR
                                    THEN Append(cls_dir,
                                           [d_name |-> backup_name(localtime(now),
                                                                   file.filename),
                                            kind |-> "reg"])
                                    ELSE cls_dir
                      /\ cls_log' = Append(cls_log,
                                       [op |-> "create_backup", i |-> cls_j + 1,
                                        outcome |-> outcome, path |-> path])
                      /\ cls_backed_up' = cls_backed_up + 1
                      /\ cls_j' = next_record(cls_j, Len(cls_files), outcome)
           ELSE /\ cls_j' = cls_j + 1
                /\ UNCHANGED <<cls_clock, cls_disk, cls_dir, cls_log, cls_backed_up>>
    /\ UNCHANGED <<cls_pc, cls_bdir, cls_reported, cls_exit>>
    /\ ClsBackupFrame

\* main(), lines 96-99: "Backup completed: %d files backed up", return 0
cls_main_report ==
    /\ prog = "cls"
    /\ cls_pc = "copy"
    /\ cls_j >= Len(cls_files)
    /\ cls_reported' = cls_backed_up
    /\ cls_exit' = 0
    /\ cls_pc' = "exit"
    /\ UNCHANGED <<cls_dir, cls_bdir, cls_disk, cls_clock, cls_j, cls_backed_up,
                   cls_log>>
    /\ ClsBackupFrame

\* the program is started again with the same argument
cls_exec ==
    /\ prog = "cls"
    /\ cls_pc = "exit"
    /\ cls_runs < MaxClsRuns
    /\ Len(cls_dir) <= Len(DotEntries) + MaxBackupEntries
    /\ cls_runs' = cls_runs + 1
    /\ cls_pc' = "start"
    /\ cls_opened' = FALSE
    /\ cls_pos' = 0
    /\ cls_files' = <<>>
    /\ cls_i' = 0
    /\ cls_sensitive_count' = 0
    /\ cls_exit' = -1
    /\ cls_j' = 0
    /\ cls_backed_up' = 0
    /\ cls_log' = <<>>
    /\ cls_reported' = -1
    /\ cls_orig' = cls_disk
    /\ UNCHANGED <<notCls, cls_dir, cls_scan_dir, cls_bdir, cls_disk, cls_clock>>

\* the directories of the model: ".", "..", then up to MaxEntries distinct
\* entries of the pool in any order
DirChoices ==
    UNION { { s \in [1..n -> 1..Len(EntryPool)] :
                \A a, b \in 1..n : a # b => s[a] # s[b] } : n \in 0..MaxEntries }

\* the files a directory listing stands for: the entries fopen can reach
DiskOf(dir_path, s) ==
    LET files == {n \in 1..Len(s) : EntryPool[s[n]].kind \in {"reg", "lnk_reg"}}
    IN  [p \in {full_path(dir_path, EntryPool[s[n]].d_name) : n \in files} |->
            PoolFiles[CHOOSE k \in 1..Len(EntryPool) :
                         full_path(dir_path, EntryPool[k].d_name) = p]]

\* the directories of the runs that go through the backup stage: up to
\* MaxBackupEntries distinct entries out of Tax_2023.pdf, vacation_photo.jpg,
\* BankNDA and the stamped copy of Tax_2023.pdf, in any order
BackupPool == <<1, 3, 8, 9>>

BackupDirChoices ==
    UNION { { s \in [1..n -> {BackupPool[k] : k \in 1..Len(BackupPool)}] :
                \A a, b \in 1..n : a # b => s[a] # s[b] } : n \in 0..MaxBackupEntries }

\* a first process is about to start
InitClsProcess ==
    /\ cls_orig = cls_disk
    /\ cls_clock = 0
    /\ cls_pc = "start"
    /\ cls_opened = FALSE
    /\ cls_pos = 0
    /\ cls_files = <<>>
    /\ cls_i = 0
    /\ cls_sensitive_count = 0
    /\ cls_exit = -1
    /\ cls_j = 0
    /\ cls_backed_up = 0
    /\ cls_log = <<>>
    /\ cls_reported = -1
    /\ cls_runs = 1

\* argv[1] is "." or the backup directory; ./sensitive_backups is missing, an
\* empty directory, or a regular file
InitBackup ==
    /\ prog = "cls"
    /\ cls_scan_dir \in {ScanDir, BACKUP_DIR}
    /\ cls_bdir \in (IF cls_scan_dir = BACKUP_DIR THEN {"dir"}
                     ELSE {"absent", "dir", "notdir"})
    /\ \E s \in BackupDirChoices :
         /\ cls_dir = DotEntries \o [n \in 1..Len(s) |-> EntryPool[s[n]]]
         /\ cls_disk = DiskOf(cls_scan_dir, s)
    /\ InitClsProcess

\* a scan of "." over the whole pool, followed up to the end of Classify
InitCls ==
    /\ prog = "cls"
    /\ cls_scan_dir = ScanDir
    /\ cls_bdir = "absent"
    /\ \E s \in DirChoices :
         /\ cls_dir = DotEntries \o [n \in 1..Len(s) |-> EntryPool[s[n]]]
         /\ cls_disk = DiskOf(cls_scan_dir, s)
    /\ InitClsProcess

\* the classifier is not the program of this behaviour
IdleCls ==
    /\ cls_dir = <<>>
    /\ cls_pc = "exit"
    /\ cls_opened = FALSE
    /\ cls_pos = 0
    /\ cls_files = <<>>
    /\ cls_i = 0
    /\ cls_sensitive_count = 0
    /\ cls_exit = -1
    /\ cls_scan_dir = <<>>
    /\ cls_bdir = "absent"
    /\ cls_disk = <<>>
    /\ cls_orig = <<>>
    /\ cls_clock = 0
    /\ cls_j = 0
    /\ cls_backed_up = 0
    /\ cls_log = <<>>
    /\ cls_reported = -1
    /\ cls_runs = 0

NextCls ==
    \/ scan_directory_open
    \/ scan_directory_entry
    \/ scan_directory_close
    \/ cls_main_scanned
    \/ classify_file
    \/ classify_return
    \/ cls_main_classified

\* the whole pipeline, run after run
NextBackup ==
    \/ NextCls
    \/ create_backup_directory
    \/ create_backup
    \/ cls_main_report
    \/ cls_exec

(***************************************************************************)
(* The byte transforms applied in isolation, twice in succession, to a     *)
(* buffer: each of the four functions under its own key.                   *)
(***************************************************************************)
\* keys: what rand() % 255 draws, and a key with bytes up to 255 (the PE
\* mutator loads its key from the file, where any byte may stand)
XorKeys == RandKeys \cup {[i \in 1..KEY_SIZE |-> 256 - i]}

XorData ==
    {[i \in 1..n |-> (a + b * i) % 256] :
        n \in 0..MaxXorLen, a \in {0, 90, 255}, b \in {0, 1, 37}}

XorFns == {"elf_xor_crypt", "elf_xor_crypt_file", "pe_xor_crypt",
           "pe_xor_crypt_additional"}

InitXor ==
    /\ prog = "xor"
    /\ IdleElfRest
    /\ IdlePeRest
    /\ IdleCls
    /\ x_fn \in XorFns
    /\ x_orig \in XorData
    /\ x_data = x_orig
    /\ x_n = 0
    /\ \E k \in XorKeys :
         /\ elf_key = IF x_fn = "elf_xor_crypt" THEN SetKey(ORIG_KEY, k) ELSE ORIG_KEY
         /\ elf_file_key =
                IF x_fn = "elf_xor_crypt_file" THEN SetKey(ORIG_KEY, k) ELSE ORIG_KEY
         /\ pe_key = IF x_fn = "pe_xor_crypt" THEN SetKey(ORIG_KEY, k) ELSE ORIG_KEY
         /\ x_addkey =
                IF x_fn = "pe_xor_crypt_additional" THEN SetKey(ORIG_KEY, k) ELSE ORIG_KEY

XorFrame == UNCHANGED <<notXor, x_fn, x_orig, x_addkey>>

apply_elf_xor_crypt ==
    /\ prog = "xor"
    /\ x_fn = "elf_xor_crypt"
    /\ x_n < MaxApply
    /\ x_data' = elf_xor_crypt(x_data, Len(x_data))
    /\ x_n' = x_n + 1
    /\ XorFrame

apply_elf_xor_crypt_file ==
    /\ prog = "xor"
    /\ x_fn = "elf_xor_crypt_file"
    /\ x_n < MaxApply
    /\ x_data' = elf_xor_crypt_file(x_data, Len(x_data))
    /\ x_n' = x_n + 1
    /\ XorFrame

apply_pe_xor_crypt ==
    /\ prog = "xor"
    /\ x_fn = "pe_xor_crypt"
    /\ x_n < MaxApply
    /\ x_data' = pe_xor_crypt(x_data, Len(x_data))
    /\ x_n' = x_n + 1
    /\ XorFrame

apply_pe_xor_crypt_additional ==
    /\ prog = "xor"
    /\ x_fn = "pe_xor_crypt_additional"
    /\ x_n < MaxApply
    /\ x_data' = pe_xor_crypt_additional(x_data, Len(x_data), x_addkey)
    /\ x_n' = x_n + 1
    /\ XorFrame

NextXor ==
    \/ apply_elf_xor_crypt
    \/ apply_elf_xor_crypt_file
    \/ apply_pe_xor_crypt
    \/ apply_pe_xor_crypt_additional

\* the key the transform under test uses
XorKeyInUse ==
    CASE x_fn = "elf_xor_crypt" -> elf_key
      [] x_fn = "elf_xor_crypt_file" -> elf_file_key
      [] x_fn = "pe_xor_crypt" -> pe_key
      [] OTHER -> x_addkey

\* C1: for each of the four transforms, every key and every buffer, an even
\* number of applications in succession with the same key gives back exactly
\* the original bytes.
C1_XorSelfInverse ==
    (prog = "xor" /\ x_n % 2 = 0) => x_data = x_orig

\* two applications to a buffer longer than the key, under a key whose
\* bytes make key - 1 underflow
C1_Witness ==
    /\ prog = "xor"
    /\ x_n = 2
    /\ Len(x_orig) > KEY_SIZE
    /\ SubSeq(XorKeyInUse, 1, KEY_SIZE) = RandKey(2)
    /\ x_data = x_orig

(***************************************************************************)
(* Properties of the classifier.                                           *)
(***************************************************************************)
IsRegularFile(entry) == entry.kind = "reg"

NamesOf(entries) == [n \in 1..Len(entries) |-> entries[n].d_name]

FilenamesOf(files) == [n \in 1..Len(files) |-> files[n].filename]

\* C9: a scan that could open the directory yields exactly one record for
\* each entry that is itself a regular file, in directory order, and none
\* for directories, symbolic links, special files, "." and "..".
C9_ScanOnlyRegularFiles ==
    (prog = "cls" /\ cls_opened /\ cls_pc \notin {"start", "scan"}) =>
        FilenamesOf(cls_files) = NamesOf(SelectSeq(cls_dir, IsRegularFile))

\* the keyword list of the classification rule, in its order
ClaimKeywords ==
    << <<"t", "a", "x">>,
       <<"b", "a", "n", "k">>,
       <<"p", "a", "s", "s", "p", "o", "r", "t">>,
       <<"s", "s", "n">>,
       <<"c", "o", "n", "f", "i", "d", "e", "n", "t", "i", "a", "l">>,
       <<"p", "r", "i", "v", "a", "t", "e">>,
       <<"s", "e", "c", "r", "e", "t">>,
       <<"p", "a", "s", "s", "w", "o", "r", "d">>,
       <<"k", "e", "y">>,
       <<"i", "n", "v", "o", "i", "c", "e">>,
       <<"c", "o", "n", "t", "r", "a", "c", "t">>,
       <<"n", "d", "a">>,
       <<"m", "e", "d", "i", "c", "a", "l">>,
       <<"l", "e", "g", "a", "l">>,
       <<"f", "i", "n", "a", "n", "c", "i", "a", "l">> >>

Contains(text, word) ==
    \E j \in 0..(Len(text) - Len(word)) : SubSeq(text, j + 1, j + Len(word)) = word

LowerCased(text) == [j \in 1..Len(text) |-> tolower(text[j])]

\* the positions in the list of the keywords the lower-cased name contains
Matches(filename) ==
    {k \in 1..Len(ClaimKeywords) : Contains(LowerCased(filename), ClaimKeywords[k])}

SetMin(S) == CHOOSE m \in S : \A n \in S : m <= n

ClassifyDone ==
    /\ prog = "cls"
    /\ \/ cls_pc \in {"classified", "backup"}
       \/ cls_pc = "exit" /\ Len(cls_files) > 0

\* C10: after Classify a record is flagged iff its lower-cased filename
\* contains a keyword of the list; a flagged record's reason is "Contains
\* keyword: " followed by the earliest keyword in list order that occurs; an
\* unflagged record has flag 0 and an empty reason; and the returned count is
\* the number of flagged records.
C10_ClassifyFirstKeyword ==
    ClassifyDone =>
        /\ \A n \in 1..Len(cls_files) :
             LET f == cls_files[n]
                 M == Matches(f.filename)
             IN  /\ f.is_sensitive \in {0, 1}
                 /\ (f.is_sensitive = 1) <=> (M # {})
                 /\ (M # {}) => f.reason = ReasonPrefix \o ClaimKeywords[SetMin(M)]
                 /\ (M = {}) => f.reason = <<>>
        /\ cls_sensitive_count
               = Cardinality({n \in 1..Len(cls_files) : cls_files[n].is_sensitive = 1})

\* classified: a name holding two keywords is flagged for the earlier one of
\* the list, an upper-case name is matched, a name with no keyword is not
C10_Witness ==
    /\ prog = "cls"
    /\ cls_pc = "classified"
    /\ Len(cls_files) = 3
    /\ \E a, b, c \in 1..3 :
         /\ cls_files[a].filename = <<"t", "a", "x", "_", "b", "a", "n", "k", "_", "s", "t", "a", "t", "e", "m", "e", "n", "t", ".", "p", "d", "f">>
         /\ cls_files[a].reason = ReasonPrefix \o <<"t", "a", "x">>
         /\ cls_files[b].filename = <<"B", "a", "n", "k", "N", "D", "A">>
         /\ cls_files[b].reason = ReasonPrefix \o <<"b", "a", "n", "k">>
         /\ cls_files[c].filename = <<"v", "a", "c", "a", "t", "i", "o", "n", "_", "p", "h", "o", "t", "o", ".", "j", "p", "g">>
         /\ cls_files[c].is_sensitive = 0
    /\ cls_sensitive_count = 2

(***************************************************************************)
(* Properties of the classifier's backup stage.                            *)
(***************************************************************************)
\* the records Classify flagged, by index
Flagged == {k \in 1..Len(cls_files) : cls_files[k].is_sensitive = 1}

\* the create_backup calls of the running process, by position in the log
BackupCalls == {n \in 1..Len(cls_log) : cls_log[n].op = "create_backup"}

\* the record a logged call was made for
RecordOf(n) == cls_files[cls_log[n].i]

\* the source of a call can be opened for reading
SourceReadable(n) ==
    /\ RecordOf(n).filepath \in DOMAIN cls_disk
    /\ cls_disk[RecordOf(n).filepath].readable

\* the destination of a call can be created or rewritten
DestinationCreatable(n) ==
    /\ cls_bdir = "dir"
    /\ cls_log[n].path \in DOMAIN cls_disk => cls_disk[cls_log[n].path].readable

\* YYYYMMDD_HHMMSS of second t of the model's clock
StampOf(t) == <<"2", "0", "2", "6", "1", "1", "0", "3", "_", "1", "2", "0", "0", "0">> \o <<Digits[t + 1]>>

\* path names a backup copy of one of the scanned records
IsBackupCopy(path) ==
    \E k \in 1..Len(cls_files), t \in 0..MaxClock :
        path = <<".", "/", "s", "e", "n", "s", "i", "t", "i", "v", "e", "_", "b", "a", "c", "k", "u", "p", "s", "/">> \o StampOf(t) \o <<"_">> \o cls_files[k].filename

\* path names a file directly in the scanned directory
InScanDir(path) ==
    LET n == Len(cls_scan_dir) + 1
    IN  /\ Len(path) > n
        /\ SubSeq(path, 1, n) = cls_scan_dir \o <<"/">>
        /\ \A m \in (n + 1)..Len(path) : path[m] # "/"

\* C11: the pipeline is Scan, Classify, then, only if a record is flagged,
\* EnsureBackupDirectory, then BackupFile once for each flagged record in
\* scan order and for no other record; a run that found or flagged nothing
\* calls neither and exits with code 0.
C11_LinearPipeline ==
    prog = "cls" =>
      /\ cls_pc \in {"start", "scan", "scanned", "classify", "classified", "backup"}
            => cls_log = <<>>
      /\ cls_log # <<>> =>
            /\ cls_log[1].op = "create_backup_directory"
            /\ Flagged # {}
            /\ \A n \in 2..Len(cls_log) :
                 /\ cls_log[n].op = "create_backup"
                 /\ cls_log[n].i \in Flagged
                 /\ \A k \in Flagged :
                      k < cls_log[n].i <=> \E m \in 2..(n - 1) : cls_log[m].i = k
      /\ cls_pc = "exit" =>
            /\ cls_exit = 0
            /\ Len(cls_log) = IF Flagged = {} THEN 0 ELSE 1 + Cardinality(Flagged)

\* a run that backed up the flagged record and skipped the unflagged one
C11_Witness ==
    /\ prog = "cls"
    /\ cls_pc = "exit"
    /\ Len(cls_files) = 2
    /\ Flagged = {2}
    /\ Len(cls_log) = 2
    /\ cls_log[2].i = 2

\* C12: no file that was in the scanned directory when the process started is
\* deleted or has its bytes changed, and every file the process creates or
\* writes is a backup copy named <stamp>_<filename> in sensitive_backups.
C12_OriginalsUntouched ==
    prog = "cls" =>
      /\ \A p \in DOMAIN cls_orig :
            InScanDir(p) => p \in DOMAIN cls_disk /\ cls_disk[p] = cls_orig[p]
      /\ \A p \in DOMAIN cls_disk :
            (p \notin DOMAIN cls_orig \/ cls_disk[p] # cls_orig[p]) => IsBackupCopy(p)

\* C13: a backup whose source can be read and whose destination can be
\* created succeeds and holds the bytes of the source, also when a backup of
\* the same name made in the same second is already there.
C13_BackupIsExactCopy ==
    (prog = "cls" /\ cls_log # <<>> /\ Len(cls_log) \in BackupCalls) =>
        LET n == Len(cls_log)
        IN  (SourceReadable(n) /\ DestinationCreatable(n)) =>
              /\ cls_log[n].outcome = "ok"
              /\ cls_log[n].path \in DOMAIN cls_disk
              /\ cls_disk[cls_log[n].path].content
                    = cls_disk[RecordOf(n).filepath].content

\* a second process has backed up a non-empty file over the backup of the
\* same name that the first process made in the same second
C13_Witness ==
    /\ prog = "cls"
    /\ cls_runs = 2
    /\ cls_scan_dir = ScanDir
    /\ cls_log # <<>>
    /\ Len(cls_log) \in BackupCalls
    /\ cls_log[Len(cls_log)].outcome = "ok"
    /\ cls_log[Len(cls_log)].path \in DOMAIN cls_orig
    /\ cls_disk[cls_log[Len(cls_log)].path].content = <<1, 2>>

\* C14: a failed copy is reported for its own record only and does not end
\* the run: every flagged record is attempted, a call fails exactly when its
\* source cannot be read or its destination cannot be created, and the
\* process exits with code 0.
C14_CopyFailureIsLocal ==
    (prog = "cls" /\ cls_pc = "exit" /\ Flagged # {}) =>
      /\ cls_exit = 0
      /\ \A k \in Flagged : \E n \in BackupCalls : cls_log[n].i = k
      /\ \A n \in BackupCalls :
            cls_log[n].outcome # "ok"
               <=> ~(SourceReadable(n) /\ DestinationCreatable(n))

\* a run whose first copy failed on the source and whose second copy succeeded
C14_Witness ==
    /\ prog = "cls"
    /\ cls_pc = "exit"
    /\ Len(cls_log) = 3
    /\ cls_log[2].outcome = "src"
    /\ cls_log[3].outcome = "ok"
    /\ cls_exit = 0

\* C16: the count printed as "files backed up" is the number of backup
\* copies the process created.
C16_ReportedCountIsCreated ==
    (prog = "cls" /\ cls_reported # -1) =>
        cls_reported = Cardinality({n \in BackupCalls : cls_log[n].outcome = "ok"})

(***************************************************************************)
(* Specifications.                                                         *)
(***************************************************************************)
SpecXor == InitXor /\ [][NextXor]_vars

\* the ELF mutator alone
InitElfOnly == InitElf /\ IdleXor /\ IdlePe /\ IdleCls

SpecElf == InitElfOnly /\ [][NextElf]_vars

\* the PE mutator alone
InitPeOnly == InitPe /\ IdleXor /\ IdleElf /\ IdleCls

SpecPe == InitPeOnly /\ [][NextPe]_vars

\* either mutator
InitMutators == ((InitElf /\ IdlePe) \/ (InitPe /\ IdleElf)) /\ IdleXor /\ IdleCls

NextMutators == NextElf \/ NextPe

\* the classifier alone
InitClsOnly == InitCls /\ IdleXor /\ IdleElf /\ IdlePe

SpecCls == InitClsOnly /\ [][NextCls]_vars

\* the classifier with its backup stage
InitBackupOnly == InitBackup /\ IdleXor /\ IdleElf /\ IdlePe

SpecBackup == InitBackupOnly /\ [][NextBackup]_vars

SpecMutators == InitMutators /\ [][NextMutators]_vars

(***************************************************************************)
(* Properties of the mutators.                                             *)
(***************************************************************************)
\* data transformed under the 8-byte key k: byte[i] ^ (k[i mod 8] - 1)
XorUnder(data, k) ==
    [i \in 1..Len(data) |-> BitXor(data[i], (k[((i - 1) % KEY_SIZE) + 1] - 1) % 256)]

\* ELF: the .poly bytes of an image and the key bytes stored in its .data
ElfPolyOf(img) == SectionBytes(elf_shdrs, img, CUSTOM_SECTION)

ElfKeyOf(img) ==
    SubSeq(SectionBytes(elf_shdrs, img, ".data"), KeyOff + 1, KeyOff + KEY_SIZE)

ElfHasPoly == \E i \in 1..Len(elf_shdrs) : elf_shdrs[i].name = CUSTOM_SECTION

PeHasPoly == \E i \in 1..Len(pe_sections) : pe_sections[i].Name = CUSTOM_SECTION

\* an ELF process has returned 0 from main and the whole image was written
ElfPassDone ==
    /\ prog = "elf"
    /\ elf_pc = "idle"
    /\ elf_exit = "ok"
    /\ elf_disk.present
    /\ Len(elf_disk.bytes) = ElfFileSize

\* PE: the persisted key is the first KEY_SIZE raw bytes of .data
PeKeyOf(file) == SubSeq(PeRaw(file, ".data"), 1, KEY_SIZE)

PePolyOf(file) == PeRaw(file, CUSTOM_SECTION)

PePassDone ==
    /\ prog = "pe"
    /\ pe_pc = "idle"
    /\ pe_exit = "ok"

\* C2: after a PE mutation pass, the rewritten .poly decrypted with the key
\* stored at the start of the rewritten .data is the plaintext the
\* pre-mutation .poly decrypts to under the pre-mutation stored key; over
\* successive passes this plaintext stays the compiled code.
C2_PeKeyRoundTrip ==
    PePassDone =>
        /\ XorUnder(PePolyOf(pe_file), PeKeyOf(pe_file))
               = XorUnder(PePolyOf(pe_prev), PeKeyOf(pe_prev))
        /\ XorUnder(PePolyOf(pe_file), PeKeyOf(pe_file)) = pe_plain

\* a second pass has rewritten .poly under a key with underflowing bytes
C2_Witness ==
    /\ PePassDone
    /\ pe_runs = 2
    /\ PePolyOf(pe_file) # PePolyOf(pe_prev)
    /\ PePolyOf(pe_prev) # pe_plain
    /\ PeKeyOf(pe_file) = RandKey(2)

\* C3: after every ELF pass the key stored in the on-disk image is the key
\* under which the on-disk .poly is encrypted: decrypting on-disk .poly with
\* the stored key gives the compiled code.
C3_ElfKeyPersisted ==
    ElfPassDone => XorUnder(ElfPolyOf(elf_disk.bytes), ElfKeyOf(elf_disk.bytes)) = elf_plain

\* C4: the bytes Demonstrate() executes are the compiled code, in every run.
C4_ElfExecutesPlaintext ==
    (prog = "elf" /\ elf_executed # <<>>) => elf_executed = elf_plain

C6_MissingPolyFatal ==
    /\ (prog = "elf" /\ ~ElfHasPoly) =>
          /\ elf_disk = [present |-> TRUE, bytes |-> ElfImage(elf_plain)]
          /\ elf_pc \in {"idle", "ctor", "main", "demo", "mutate"}
          /\ elf_exit # "ok"
          /\ elf_err \in {"", "Could not read executable file\n",
                          "Could not allocate memory\n",
                          "Could not find polymorphic section\n"}
    /\ (prog = "pe" /\ ~PeHasPoly) =>
          /\ pe_file = PeImage(pe_plain)
          /\ pe_pc \in {"idle", "main", "demo", "mutate", "mapped"}
          /\ pe_exit # "ok"
          /\ ~pe_success

\* the ELF mutation routine has died on the missing section
C6_Witness ==
    /\ prog = "elf"
    /\ ~ElfHasPoly
    /\ elf_pc = "idle"
    /\ elf_exit = "fail"
    /\ elf_err = "Could not find polymorphic section\n"
    /\ elf_disk = elf_prev

\* C7: whenever an ELF process has ended, the executable path holds a
\* complete image of the original size.
C7_ElfAtomicReplace ==
    (prog = "elf" /\ elf_pc = "idle" /\ elf_runs > 0) =>
        /\ elf_disk.present
        /\ Len(elf_disk.bytes) = ElfFileSize

\* C8 as stated: every image I/O failure, a failed flush included, ends the
\* process with a diagnostic and a non-zero status, and success is not reported.
C8_PeEveryIoFailureFatal ==
    (prog = "pe" /\ pe_pc = "idle" /\ pe_io # "none") =>
        /\ pe_exit = "fail"
        /\ pe_err # ""
        /\ ~pe_success

\* C8 amended: a failure to open, size or map the file ends the process with
\* a diagnostic and a non-zero status and success is never reported; a failed
\* flush only writes a warning, and the process reports success and exits 0.
C8_PeIoFailures ==
    prog = "pe" =>
        /\ (pe_io \in {"open", "size", "mapping", "view"}) =>
              /\ pe_pc = "idle"
              /\ pe_exit = "fail"
              /\ pe_err # ""
              /\ ~pe_success
        /\ (pe_io = "flush") =>
              /\ pe_warn # ""
              /\ pe_err = ""
              /\ pe_exit \in {"running", "ok"}
              /\ (pe_pc = "idle" => pe_exit = "ok" /\ pe_success)

\* a process whose flush failed has reported success and returned 0
C8_Witness ==
    /\ prog = "pe"
    /\ pe_pc = "idle"
    /\ pe_io = "flush"
    /\ pe_exit = "ok"
    /\ pe_success
====
